---- MODULE Spec2Model ----
(***************************************************************************)
(* Model of chargelab_monitor.py: a polling loop that queries a status     *)
(* endpoint for each charger and appends a row to the SQLite table         *)
(* charger_data whenever the status of a port differs from the last        *)
(* committed row of that port.                                             *)
(***************************************************************************)
EXTENDS Integers, Sequences, FiniteSets, TLC

(***************************************************************************)
(* Bounds of the model.                                                    *)
(***************************************************************************)
NumChargers == 2   \* how many entries of CHARGERS the model polls
MaxPolls == 5      \* total number of query_api calls in a behaviour
MaxRuns == 2       \* how often the process is started on the same database
MaxEntities == 2   \* longest 'entities' list of a generated JSON body
MaxPorts == 2      \* longest 'ports' list of a generated JSON body

(***************************************************************************)
(* Configuration (chargelab_monitor.py:9-26).                              *)
(***************************************************************************)
ALL_CHARGERS ==
    << "NSP-BRI-01", "NSP-BRI-02", "NSP-MAS-01", "NSP-MAS-02", "NSP-MEM-01",
       "NSP-MEM-02", "NSP-MIL-01", "NSP-MIL-02", "NSP-PIC-01", "NSP-PIC-02",
       "NSP-WHY-01", "NSP-WHY-02", "NSP-WIN-01", "NSP-WIN-02" >>

CHARGERS == SubSeq(ALL_CHARGERS, 1, NumChargers)

(***************************************************************************)
(* JSON / Python values.  Every value is a record [t, s]: t is the Python  *)
(* type and s the text SQLite stores for it.  Absent is a missing key.     *)
(***************************************************************************)
Str(x) == [t |-> "str", s |-> x]
Int5 == [t |-> "int", s |-> "5"]
None == [t |-> "NoneType", s |-> ""]
Absent == [t |-> "absent", s |-> ""]

\* dict.get(key, 'unknown'): the default only replaces a missing key
DictGet(v) == IF v = Absent THEN Str("unknown") ELSE v

\* a JSON container: a list carries its items, anything else none
JList(items) == [t |-> "list", items |-> items]
JOther == [t |-> "other", items |-> << >>]
JAbsent == [t |-> "absent", items |-> << >>]

Port(pid, st) == [t |-> "dict", portId |-> pid, status |-> st]
StrPort == [t |-> "str", portId |-> Absent, status |-> Absent]

Entity(ports) == [t |-> "dict", ports |-> ports]
IntEntity == [t |-> "int", ports |-> JAbsent]
StrEntity == [t |-> "str", ports |-> JAbsent]

Dict(entities) == [t |-> "dict", entities |-> entities]
NotDict == [t |-> "other", entities |-> JAbsent]

\* {'error': str(e)}: a dict without the key 'entities'
ErrorDict == Dict(JAbsent)

(***************************************************************************)
(* extract_port_data (chargelab_monitor.py:66-83).  The loops append to    *)
(* port_data; an exception leaves the loops and keeps what was appended.   *)
(***************************************************************************)
\* a fallback that reports the default status instead of 'error'
SentinelUnknown == << << Str("unknown"), Str("unknown") >> >>

SENTINEL == << << Str("unknown"), Str("error") >> >>

RECURSIVE ExtractPorts(_, _, _)
ExtractPorts(ports, k, acc) ==
    IF k > Len(ports) THEN [port_data |-> acc, raised |-> FALSE]
    ELSE IF ports[k].t # "dict"
         THEN [port_data |-> acc, raised |-> TRUE]     \* no attribute 'get'
         ELSE ExtractPorts(ports, k + 1,
                  Append(acc, << DictGet(ports[k].portId),
                                 DictGet(ports[k].status) >>))

RECURSIVE ExtractEntities(_, _, _)
ExtractEntities(entities, k, acc) ==
    IF k > Len(entities) THEN [port_data |-> acc, raised |-> FALSE]
    ELSE LET entity == entities[k] IN
         IF entity.t = "int"
         THEN [port_data |-> acc, raised |-> TRUE]     \* 'ports' in 7
         ELSE IF entity.t = "dict" /\ entity.ports.t = "list"
              THEN LET r == ExtractPorts(entity.ports.items, 1, acc) IN
                   IF r.raised THEN r
                   ELSE ExtractEntities(entities, k + 1, r.port_data)
              ELSE ExtractEntities(entities, k + 1, acc)

ExtractLoop(response_data) ==
    IF response_data.t = "dict" /\ response_data.entities.t = "list"
    THEN ExtractEntities(response_data.entities.items, 1, << >>)
    ELSE [port_data |-> << >>, raised |-> FALSE]

\* extraction that returns port_data as it is, also when it is empty
ExtractWithoutFallback(response_data) == ExtractLoop(response_data).port_data

extract_port_data(response_data) ==
    LET port_data == ExtractLoop(response_data).port_data IN
    IF port_data # << >> THEN port_data ELSE SENTINEL


(***************************************************************************)
(* query_api (chargelab_monitor.py:50-64).  An outcome of the endpoint is  *)
(* a transport failure, or a response with a status code and a body that   *)
(* either parses as JSON or does not.  response.json() raises              *)
(* requests.exceptions.JSONDecodeError, a RequestException, which the      *)
(* except clause catches.                                                  *)
(***************************************************************************)
Raises == [exception |-> TRUE, status_code |-> 0, json_ok |-> FALSE, json |-> NotDict]
Response(code, ok, body) ==
    [exception |-> FALSE, status_code |-> code, json_ok |-> ok, json |-> body]

query_api(charger_name, outcome) ==
    IF outcome.exception
    THEN [status_code |-> 0, data |-> ErrorDict, raised |-> FALSE]
    ELSE IF outcome.status_code = 200
         THEN IF outcome.json_ok
              THEN [status_code |-> 200, data |-> outcome.json, raised |-> FALSE]
              ELSE [status_code |-> 0, data |-> ErrorDict, raised |-> FALSE]
         ELSE [status_code |-> outcome.status_code, data |-> NotDict,
               raised |-> FALSE]

(***************************************************************************)
(* The table charger_data (chargelab_monitor.py:33-39): a sequence of rows *)
(* in id order.  port_id and port_status are TEXT NOT NULL columns: SQLite *)
(* stores the text form v.s of a bound value v, and refuses None.          *)
(***************************************************************************)
Row(id, charger_name, timestamp, port_id, port_status) ==
    [id |-> id, charger_name |-> charger_name, timestamp |-> timestamp,
     port_id |-> port_id, port_status |-> port_status]

\* the rows a SELECT ... WHERE charger_name = ? AND port_id = ? matches;
\* a NULL parameter matches no row, a number is compared by its text
MatchingRows(rows, charger_name, port_id) ==
    { i \in 1..Len(rows) : /\ rows[i].charger_name = charger_name
                           /\ port_id.t # "NoneType"
                           /\ rows[i].port_id = port_id.s }

Newest(rows, S) == CHOOSE i \in S : \A j \in S : rows[j].id <= rows[i].id

(***************************************************************************)
(* get_last_port_state (chargelab_monitor.py:85-96): opens a connection of *)
(* its own, so it reads the committed rows only.                           *)
(***************************************************************************)
\* a lookup whose WHERE clause names the port only
GetLastAnyCharger(committed, charger_name, port_id) ==
    LET S == { i \in 1..Len(committed) : /\ port_id.t # "NoneType"
                                         /\ committed[i].port_id = port_id.s } IN
    IF S = {} THEN None ELSE Str(committed[Newest(committed, S)].port_status)

\* a lookup whose WHERE clause names the charger only
GetLastAnyPort(committed, charger_name, port_id) ==
    LET S == { i \in 1..Len(committed) :
                   committed[i].charger_name = charger_name } IN
    IF S = {} THEN None ELSE Str(committed[Newest(committed, S)].port_status)

get_last_port_state(committed, charger_name, port_id) ==
    LET S == MatchingRows(committed, charger_name, port_id) IN
    IF S = {} THEN None ELSE Str(committed[Newest(committed, S)].port_status)

(***************************************************************************)
(* store_data (chargelab_monitor.py:98-119).  The INSERTs are pending on   *)
(* the call's own connection until conn.commit(); an exception leaves the  *)
(* function before the commit and the pending rows are rolled back.        *)
(***************************************************************************)
NotNullViolated(port_id, port_status) ==
    port_id.t = "NoneType" \/ port_status.t = "NoneType"

RECURSIVE StoreLoop(_, _, _, _, _, _)
StoreLoop(committed, charger_name, timestamp, port_data, k, pending) ==
    IF k > Len(port_data)
    THEN [pending |-> pending, error |-> ""]
    ELSE LET port_id == port_data[k][1]
             port_status == port_data[k][2]
             last_status == get_last_port_state(committed, charger_name, port_id)
         IN  IF last_status = None \/ last_status # port_status
             THEN IF NotNullViolated(port_id, port_status)
                  THEN [pending |-> pending, error |-> "IntegrityError"]
                  ELSE StoreLoop(committed, charger_name, timestamp, port_data,
                           k + 1,
                           Append(pending,
                               Row(Len(committed) + Len(pending) + 1,
                                   charger_name, timestamp,
                                   port_id.s, port_status.s)))
             ELSE StoreLoop(committed, charger_name, timestamp, port_data,
                      k + 1, pending)

\* an UPDATE of the port's newest row where store_data has an INSERT
StoreDataUpdates(committed, charger_name, timestamp, response_data) ==
    LET port_data == extract_port_data(response_data)
        r == StoreLoop(committed, charger_name, timestamp, port_data, 1, << >>)
        Hit(i, row) == /\ MatchingRows(committed, charger_name, Str(row.port_id)) # {}
                       /\ i = Newest(committed,
                               MatchingRows(committed, charger_name, Str(row.port_id)))
        updated == [i \in 1..Len(committed) |->
                       IF \E k \in 1..Len(r.pending) : Hit(i, r.pending[k])
                       THEN LET k == CHOOSE k \in 1..Len(r.pending) :
                                         Hit(i, r.pending[k])
                            IN  [committed[i] EXCEPT
                                    !.timestamp = timestamp,
                                    !.port_status = r.pending[k].port_status]
                       ELSE committed[i]]
        inserted == SelectSeq(r.pending,
                        LAMBDA row : MatchingRows(committed, charger_name,
                                                  Str(row.port_id)) = {})
    IN  [port_data |-> port_data,
         error |-> r.error,
         rows |-> IF r.error = "" THEN updated \o inserted ELSE committed,
         stored_any |-> r.error = "" /\ r.pending # << >>]

\* a commit after every INSERT: the rows inserted before an exception stay
StoreDataCommitsEachInsert(committed, charger_name, timestamp, response_data) ==
    LET port_data == extract_port_data(response_data)
        r == StoreLoop(committed, charger_name, timestamp, port_data, 1, << >>)
    IN  [port_data |-> port_data,
         error |-> r.error,
         rows |-> committed \o r.pending,
         stored_any |-> r.error = "" /\ r.pending # << >>]

\* stored_any set for every pair looked at, not only for an INSERT
StoreDataFlagsEveryPair(committed, charger_name, timestamp, response_data) ==
    LET port_data == extract_port_data(response_data)
        r == StoreLoop(committed, charger_name, timestamp, port_data, 1, << >>)
    IN  [port_data |-> port_data,
         error |-> r.error,
         rows |-> IF r.error = "" THEN committed \o r.pending ELSE committed,
         stored_any |-> r.error = ""]

store_data(committed, charger_name, timestamp, response_data) ==
    LET port_data == extract_port_data(response_data)
        r == StoreLoop(committed, charger_name, timestamp, port_data, 1, << >>)
    IN  [port_data |-> port_data,
         error |-> r.error,
         rows |-> IF r.error = "" THEN committed \o r.pending ELSE committed,
         stored_any |-> r.error = "" /\ r.pending # << >>]

(***************************************************************************)
(* State.                                                                  *)
(***************************************************************************)
VARIABLES
    pc,          \* where main() is: start, cycle, fetch, record, sleep, stopped
    idx,         \* position of the for loop in CHARGERS
    now,         \* the clock datetime.now() reads
    timestamp,   \* main()'s timestamp of the current cycle
    result,      \* main()'s result of query_api for CHARGERS[idx]
    rows,        \* the committed rows of charger_data, in id order
    tables,      \* the tables of the database file, in creation order
    indexes,     \* the indexes of the database file, in creation order
    stop_cause,  \* the exception that ended the loop, "" while it runs
    polls,       \* number of query_api calls so far
    runs,        \* number of times the process was started
    polled_at,   \* time at which the request for CHARGERS[idx] was sent
    observed,    \* per charger, the port_data of its previous store_data
    last_call,   \* what the step just taken did; before is the number of
                 \* committed rows it started from
    cycle_log    \* the calls main() has made in the current cycle, in order

vars == << pc, idx, now, timestamp, result, rows, tables, indexes, stop_cause,
           polls, runs, polled_at, observed, last_call, cycle_log >>

NoResult == [status_code |-> 0, data |-> NotDict, raised |-> FALSE]

\* last_call of a step that is not a call of store_data or init_database
Step(op) ==
    [op |-> op, charger_name |-> "", timestamp |-> 0, polled_at |-> 0,
     port_data |-> << >>, previous |-> << >>, before |-> 0,
     error |-> "", stored |-> FALSE]

Init ==
    /\ pc = "start"
    /\ idx = 1
    /\ now = 0
    /\ timestamp = 0
    /\ result = NoResult
    /\ rows = << >>
    /\ tables = << >>
    /\ indexes = << >>
    /\ stop_cause = ""
    /\ polls = 0
    /\ runs = 1
    /\ polled_at = 0
    /\ observed = [c \in 1..Len(CHARGERS) |-> << >>]
    /\ last_call = Step("")
    /\ cycle_log = << >>

(***************************************************************************)
(* init_database (chargelab_monitor.py:28-48).                             *)
(***************************************************************************)
Has(seq, name) == \E i \in 1..Len(seq) : seq[i] = name

\* CREATE without IF NOT EXISTS
CreateAlways(seq, name) == Append(seq, name)

CreateIfNotExists(seq, name) == IF Has(seq, name) THEN seq ELSE Append(seq, name)

init_database ==
    /\ pc = "start"
    /\ tables' = CreateIfNotExists(tables, "charger_data")
    /\ indexes' = CreateIfNotExists(indexes, "idx_charger_name")
    /\ pc' = "cycle"
    /\ last_call' = [Step("init_database") EXCEPT !.before = Len(rows)]
    /\ UNCHANGED << idx, now, timestamp, result, rows, stop_cause, polls, runs,
                    polled_at, observed, cycle_log >>

(***************************************************************************)
(* main (chargelab_monitor.py:121-147).                                    *)
(***************************************************************************)
\* a loop that reads the clock before the while loop only
BeginCycleNoStamp ==
    /\ pc = "cycle"
    /\ idx' = 1
    /\ pc' = "fetch"
    /\ last_call' = Step("cycle")
    /\ cycle_log' = << >>
    /\ UNCHANGED << now, timestamp, result, rows, tables, indexes, stop_cause,
                    polls, runs, polled_at, observed >>

\* line 134: timestamp = datetime.now().isoformat(); line 136 starts the for
BeginCycle ==
    /\ pc = "cycle"
    /\ timestamp' = now
    /\ idx' = 1
    /\ pc' = "fetch"
    /\ last_call' = Step("cycle")
    /\ cycle_log' = << >>
    /\ UNCHANGED << now, result, rows, tables, indexes, stop_cause, polls, runs,
                    polled_at, observed >>

\* lines 144-147: an exception leaves the while loop and main() returns; the
\* process ends and its variables are gone
Exits(cause) ==
    /\ pc' = "stopped"
    /\ stop_cause' = cause
    /\ idx' = 1
    /\ timestamp' = 0
    /\ polled_at' = 0
    /\ result' = NoResult
    /\ cycle_log' = << >>

\* the outcomes of the endpoint the loop is run against
A1 == Str("A1")
OkPorts(ports) == Response(200, TRUE, Dict(JList(<< Entity(JList(ports)) >>)))

Outcomes ==
    { Raises,
      Response(500, FALSE, NotDict),
      OkPorts(<< Port(A1, Str("available")) >>),
      OkPorts(<< Port(A1, Str("charging")) >>),
      OkPorts(<< Port(A1, Int5) >>),
      OkPorts(<< Port(A1, None) >>),
      OkPorts(<< Port(Absent, Absent), Port(Absent, Absent) >>),
      OkPorts(<< Port(A1, Str("available")), Port(Absent, Str("charging")) >>) }

\* line 137: result = query_api(charger_name); the request takes time, and an
\* exception of query_api would reach line 146
Fetch(outcome) ==
    /\ pc = "fetch"
    /\ polls < MaxPolls
    /\ LET r == query_api(CHARGERS[idx], outcome) IN
       IF r.raised
       THEN Exits("Exception")
       ELSE /\ result' = r
            /\ pc' = "record"
            /\ polled_at' = now
            /\ cycle_log' = Append(cycle_log, << "query_api", CHARGERS[idx] >>)
            /\ UNCHANGED << idx, timestamp, stop_cause >>
    /\ now' = now + 1
    /\ polls' = polls + 1
    /\ last_call' = Step("query_api")
    /\ UNCHANGED << rows, tables, indexes, runs, observed >>

\* a loop that ends after one pass over the chargers
AfterStoreStops(error, i) ==
    IF error # "" THEN "stopped"
    ELSE IF i < Len(CHARGERS) THEN "fetch" ELSE "stopped"

\* a loop that sleeps after the first charger
AfterStoreSleepsEarly(error, i) == IF error # "" THEN "stopped" ELSE "sleep"

\* a loop that catches the exception per charger and goes on
AfterStoreContinue(error, i) == IF i < Len(CHARGERS) THEN "fetch" ELSE "sleep"

\* where main() goes after store_data for CHARGERS[i]: an exception reaches
\* line 146 and ends the loop, otherwise the for loop goes on or ends
AfterStore(error, i) ==
    IF error # "" THEN "stopped"
    ELSE IF i < Len(CHARGERS) THEN "fetch" ELSE "sleep"

\* lines 138-140 and the step of the for loop
Record ==
    /\ pc = "record"
    /\ LET r == store_data(rows, CHARGERS[idx], timestamp, result.data) IN
       /\ rows' = r.rows
       /\ IF AfterStore(r.error, idx) = "stopped"
          THEN Exits(r.error)
          ELSE /\ pc' = AfterStore(r.error, idx)
               /\ idx' = IF pc' = "fetch" THEN idx + 1 ELSE idx
               /\ cycle_log' = Append(cycle_log, << "store_data", CHARGERS[idx] >>)
               /\ UNCHANGED << timestamp, result, stop_cause, polled_at >>
       /\ observed' = IF r.error = ""
                      THEN [observed EXCEPT ![idx] = r.port_data]
                      ELSE observed
       /\ last_call' = [op |-> "store_data", charger_name |-> CHARGERS[idx],
                        timestamp |-> timestamp, polled_at |-> polled_at,
                        port_data |-> r.port_data, previous |-> observed[idx],
                        before |-> Len(rows), error |-> r.error,
                        stored |-> r.stored_any]
    /\ UNCHANGED << now, tables, indexes, polls, runs >>

\* a failure of the store itself (I/O error, locked or corrupt file) inside
\* store_data: sqlite3.Error leaves the call before the commit
StoreFails ==
    /\ pc = "record"
    /\ IF AfterStore("OperationalError", idx) = "stopped"
       THEN Exits("OperationalError")
       ELSE /\ pc' = AfterStore("OperationalError", idx)
            /\ idx' = IF pc' = "fetch" THEN idx + 1 ELSE idx
            /\ cycle_log' = Append(cycle_log, << "store_data", CHARGERS[idx] >>)
            /\ UNCHANGED << timestamp, result, stop_cause, polled_at >>
    /\ last_call' = [Step("store_data") EXCEPT
                        !.charger_name = CHARGERS[idx],
                        !.before = Len(rows),
                        !.error = "OperationalError"]
    /\ UNCHANGED << now, rows, tables, indexes, polls, runs, observed >>

\* line 142: time.sleep(QUERY_INTERVAL)
QUERY_INTERVAL == 117

Sleep ==
    /\ pc = "sleep"
    /\ now' = now + QUERY_INTERVAL
    /\ pc' = "cycle"
    /\ last_call' = Step("sleep")
    /\ UNCHANGED << idx, timestamp, result, rows, tables, indexes, stop_cause,
                    polls, runs, polled_at, observed, cycle_log >>

\* lines 144-145: Ctrl+C anywhere inside the try block
Interrupt ==
    /\ pc \in {"cycle", "fetch", "record", "sleep"}
    /\ Exits("KeyboardInterrupt")
    /\ last_call' = [Step("interrupt") EXCEPT !.before = Len(rows)]
    /\ UNCHANGED << now, rows, tables, indexes, polls, runs, observed >>

Next ==
    \/ init_database
    \/ BeginCycle
    \/ \E outcome \in Outcomes : Fetch(outcome)
    \/ Record
    \/ StoreFails
    \/ Sleep
    \/ Interrupt

Spec == Init /\ [][Next]_vars

(***************************************************************************)
(* The loop without the clock: the while True of lines 133-142 run for     *)
(* ever.  A step of the single thread is taken whenever it can be: a       *)
(* request returns within its timeout (line 54), a call of store_data ends *)
(* by returning or by raising, time.sleep returns.  An interrupt may       *)
(* happen and is never bound to.                                           *)
(***************************************************************************)
\* the endpoint of the endless loop: two failures, a port, a null status
LiveOutcomes ==
    { Raises,
      Response(500, FALSE, NotDict),
      OkPorts(<< Port(A1, Str("available")) >>),
      OkPorts(<< Port(A1, None) >>) }

\* line 137, the time of the request left out
FetchLive ==
    /\ pc = "fetch"
    /\ \E outcome \in LiveOutcomes :
           LET r == query_api(CHARGERS[idx], outcome) IN
           IF r.raised
           THEN Exits("Exception")
           ELSE /\ result' = r
                /\ pc' = "record"
                /\ cycle_log' = Append(cycle_log, << "query_api", CHARGERS[idx] >>)
                /\ UNCHANGED << idx, timestamp, stop_cause, polled_at >>
    /\ last_call' = Step("query_api")
    /\ UNCHANGED << now, polls, rows, tables, indexes, runs, observed >>

\* line 142, the time slept left out
SleepLive ==
    /\ pc = "sleep"
    /\ pc' = "cycle"
    /\ last_call' = Step("sleep")
    /\ UNCHANGED << idx, now, timestamp, result, rows, tables, indexes,
                    stop_cause, polls, runs, polled_at, observed, cycle_log >>

NextLive ==
    \/ init_database
    \/ BeginCycle
    \/ FetchLive
    \/ Record
    \/ StoreFails
    \/ SleepLive
    \/ Interrupt

SpecLive ==
    /\ Init
    /\ [][NextLive]_vars
    /\ WF_vars(init_database)
    /\ WF_vars(BeginCycle)
    /\ WF_vars(FetchLive)
    /\ WF_vars(StoreFails \/ Record)
    /\ WF_vars(SleepLive)

(***************************************************************************)
(* The database file outlives the process: main() started again on it.     *)
(***************************************************************************)
Restart ==
    /\ pc = "stopped"
    /\ runs < MaxRuns
    /\ runs' = runs + 1
    /\ pc' = "start"
    /\ stop_cause' = ""
    /\ last_call' = Step("main")
    /\ UNCHANGED << idx, now, timestamp, result, rows, tables, indexes, polls,
                    polled_at, observed, cycle_log >>

\* the endpoint of the restarted runs: a failure, a port, the port changed,
\* and a port followed by one whose status is null
RestartOutcomes ==
    { Raises,
      OkPorts(<< Port(A1, Str("available")) >>),
      OkPorts(<< Port(A1, Str("charging")) >>),
      OkPorts(<< Port(Absent, Str("charging")), Port(A1, None) >>) }

FetchRestart == \E outcome \in RestartOutcomes : Fetch(outcome)

NextRestart ==
    \/ init_database
    \/ BeginCycle
    \/ FetchRestart
    \/ Record
    \/ StoreFails
    \/ Sleep
    \/ Interrupt
    \/ Restart

SpecRestart == Init /\ [][NextRestart]_vars

(***************************************************************************)
(* The first poll of a fresh database, against every outcome of the        *)
(* endpoint whose JSON body has at most MaxEntities entities of at most    *)
(* MaxPorts ports each.                                                    *)
(***************************************************************************)
Seqs(S, n) == UNION { [1..k -> S] : k \in 0..n }

GenPorts ==
    { Port(A1, Str("available")), Port(Absent, Absent), StrPort }

GenEntities ==
    { IntEntity, StrEntity, Entity(JAbsent), Entity(JOther) }
        \cup { Entity(JList(ports)) : ports \in Seqs(GenPorts, MaxPorts) }

GenBodies ==
    { NotDict, Dict(JAbsent), Dict(JOther) }
        \cup { Dict(JList(entities)) : entities \in Seqs(GenEntities, MaxEntities) }

GenOutcomes ==
    { Raises, Response(500, FALSE, NotDict), Response(200, FALSE, NotDict) }
        \cup { Response(200, TRUE, body) : body \in GenBodies }

FetchFirst ==
    /\ polls = 0
    /\ \E outcome \in GenOutcomes : Fetch(outcome)

NextExtract == init_database \/ BeginCycle \/ FetchFirst \/ Record

SpecExtract == Init /\ [][NextExtract]_vars

(***************************************************************************)
(* Properties.                                                             *)
(***************************************************************************)
\* the step just taken was a store_data call that returned
Returned == last_call.op = "store_data" /\ last_call.error = ""

\* the rows the step just taken committed
NewRows == { i \in 1..Len(rows) : i > last_call.before }

\* the newest row of the same charger and port before row j, if any
Predecessors(j) ==
    { i \in 1..(j - 1) : /\ rows[i].charger_name = rows[j].charger_name
                         /\ rows[i].port_id = rows[j].port_id }

\* C1: for every (charger_name, port_id), two rows adjacent in the history
\* of that port (ordered by id) never have the same port_status.
C1_NoDuplicateRun ==
    \A j \in 1..Len(rows) :
        Predecessors(j) # {} =>
            rows[Newest(rows, Predecessors(j))].port_status # rows[j].port_status

\* the statuses port_id has in a port_data list, as stored text
StatusesOf(port_data, port_id) ==
    { port_data[k][2].s : k \in { n \in 1..Len(port_data) :
                                      port_data[n][1].s = port_id } }

PortIdsOf(port_data) == { port_data[k][1].s : k \in 1..Len(port_data) }

\* port_id had one status in the previous poll of the charger and has one
\* other status in the poll just recorded
Changed(port_id) ==
    /\ Returned
    /\ port_id \in PortIdsOf(last_call.previous)
    /\ port_id \in PortIdsOf(last_call.port_data)
    /\ Cardinality(StatusesOf(last_call.previous, port_id)) = 1
    /\ Cardinality(StatusesOf(last_call.port_data, port_id)) = 1
    /\ StatusesOf(last_call.previous, port_id)
           # StatusesOf(last_call.port_data, port_id)

\* C2 as stated: when the status of a port changed from A to B between two
\* polls, then after store_data returned a row (E, P, B) exists whose
\* timestamp is at least the time at which E was polled.
C2_CapturedAtPollTime ==
    \A port_id \in PortIdsOf(last_call.port_data) :
        Changed(port_id) =>
            \E i \in 1..Len(rows) :
                /\ rows[i].charger_name = last_call.charger_name
                /\ rows[i].port_id = port_id
                /\ rows[i].port_status \in StatusesOf(last_call.port_data, port_id)
                /\ rows[i].timestamp >= last_call.polled_at

\* C2 amended: when the status of a port changed from A to B between two
\* polls, then after store_data returned, the call has committed a row
\* (E, P, B) that carries the timestamp of the cycle of that poll.
C2_CapturedAtCycleTimestamp ==
    \A port_id \in PortIdsOf(last_call.port_data) :
        Changed(port_id) =>
            \E i \in NewRows :
                /\ rows[i].charger_name = last_call.charger_name
                /\ rows[i].port_id = port_id
                /\ rows[i].port_status \in StatusesOf(last_call.port_data, port_id)
                /\ rows[i].timestamp = last_call.timestamp

\* C2 witness: the second charger of the list was polled after the cycle's
\* timestamp was taken, one of its ports changed, and the change is stored.
C2_Witness ==
    /\ Changed("A1")
    /\ last_call.polled_at > last_call.timestamp
    /\ last_call.stored

\* C3: whenever store_data processes a pair whose (charger_name, port_id)
\* has no row, a row with that charger, port, status and the call's
\* timestamp is appended, whatever the status is.
C3_FirstObservationStored ==
    last_call.op = "store_data" =>
        \A k \in 1..Len(last_call.port_data) :
            LET port_id == last_call.port_data[k][1]
                port_status == last_call.port_data[k][2]
            IN  MatchingRows(SubSeq(rows, 1, last_call.before),
                             last_call.charger_name, port_id) = {} =>
                    \E i \in NewRows :
                        /\ rows[i].charger_name = last_call.charger_name
                        /\ rows[i].port_id = port_id.s
                        /\ rows[i].port_status = port_status.s
                        /\ rows[i].timestamp = last_call.timestamp

\* the statuses a port of a response can carry
StatusValues ==
    { Str("available"), Str("charging"), Str("unknown"), Str("error"), Int5,
      None }

\* whether store_data commits a row for port_id
Appends(committed, charger_name, port_data, port_id) ==
    LET r == StoreLoop(committed, charger_name, 0, port_data, 1, << >>) IN
    /\ r.error = ""
    /\ \E i \in 1..Len(r.pending) : r.pending[i].port_id = port_id

\* the committed rows without those of one port of a charger
Without(committed, charger_name, port_id) ==
    SelectSeq(committed,
              LAMBDA row : ~(row.charger_name = charger_name
                             /\ row.port_id = port_id))

\* C4: within one store_data call, whether a row is appended for port P2 is
\* the same for every status observed for another port P1 of the call and
\* for every prior history of P1.
C4_PortIndependence ==
    pc = "record" =>
        LET port_data == extract_port_data(result.data) IN
        \A k1, k2 \in 1..Len(port_data) :
            port_data[k1][1].s # port_data[k2][1].s =>
                \A v \in StatusValues :
                    LET other == [port_data EXCEPT ![k1] = << port_data[k1][1], v >>]
                        P2 == port_data[k2][1].s
                    IN  /\ Appends(rows, CHARGERS[idx], other, P2)
                            = Appends(rows, CHARGERS[idx], port_data, P2)
                        /\ Appends(Without(rows, CHARGERS[idx], port_data[k1][1].s),
                                   CHARGERS[idx], other, P2)
                            = Appends(rows, CHARGERS[idx], port_data, P2)

\* C5: whatever the endpoint returns, the loop stays running; only an
\* interrupt or a failure of the store stops it.
C5_EndpointNeverStopsLoop ==
    pc = "stopped" => stop_cause \in {"KeyboardInterrupt", "OperationalError"}

\* C6: query_api followed by extract_port_data yields a non-empty list of
\* pairs for every outcome of the endpoint, and no exception reaches main().
C6_FetcherTotal ==
    /\ last_call.op = "query_api" => pc = "record" /\ ~result.raised
    /\ pc = "record" =>
           LET port_data == extract_port_data(result.data) IN
           /\ Len(port_data) >= 1
           /\ \A k \in 1..Len(port_data) : Len(port_data[k]) = 2

\* C6 witness: a transport failure was turned into data that extracts to the
\* sentinel pair.
C6_Witness ==
    /\ pc = "record"
    /\ result.status_code = 0
    /\ extract_port_data(result.data) = << << Str("unknown"), Str("error") >> >>

\* no entity of the response carries a list 'ports' with a port in it
NoPorts(response_data) ==
    \/ response_data.t # "dict"
    \/ response_data.entities.t # "list"
    \/ \A k \in 1..Len(response_data.entities.items) :
           LET entity == response_data.entities.items[k] IN
           ~(entity.t = "dict" /\ entity.ports.t = "list"
               /\ entity.ports.items # << >>)

\* C7: for a response that is not a dict, has no 'entities', has 'entities'
\* that is not a list or is empty, or in which no entity has a non-empty
\* list 'ports', extract_port_data returns exactly [('unknown', 'error')].
C7_FallbackDeterminism ==
    Returned /\ NoPorts(result.data) =>
        last_call.port_data = << << Str("unknown"), Str("error") >> >>

\* C7 witness: store_data was given a dict whose 'entities' is a list of
\* entities without ports, and worked on the sentinel pair.
C7_Witness ==
    /\ Returned
    /\ result.data.t = "dict"
    /\ result.data.entities.t = "list"
    /\ Len(result.data.entities.items) = MaxEntities
    /\ NoPorts(result.data)
    /\ last_call.port_data = << << Str("unknown"), Str("error") >> >>

\* C8: a failure inside store_data stops the loop, and a stopped loop stays
\* stopped: it fetches nothing, appends nothing and starts no cycle.
C8_FailFast ==
    [][ /\ (last_call'.op = "store_data" /\ last_call'.error # "")
            => pc' = "stopped"
        /\ pc = "stopped"
            => /\ pc' = "stopped"
               /\ UNCHANGED << rows, polls, timestamp, result, stop_cause >>
      ]_vars

\* C8 witness: the store failed while the second charger was recorded, after
\* rows had been committed, and the loop is stopped.
C8_Witness ==
    /\ last_call.op = "store_data"
    /\ last_call.error = "OperationalError"
    /\ last_call.charger_name = CHARGERS[Len(CHARGERS)]
    /\ rows # << >>
    /\ pc = "stopped"

\* C9: calling store_data again with the list it has just recorded appends
\* nothing, leaves the store unchanged and returns False.
C9_ReRecordingNoOp ==
    Returned =>
        LET r == store_data(rows, last_call.charger_name, last_call.timestamp,
                            result.data)
        IN  r.error = "" /\ r.rows = rows /\ ~r.stored_any

Count(seq, name) == Cardinality({ i \in 1..Len(seq) : seq[i] = name })

\* C10: init_database on an initialised store raises nothing, leaves exactly
\* one table charger_data and one index idx_charger_name, and leaves the
\* rows as they are.
C10_IdempotentInit ==
    [][ (pc = "start" /\ Has(tables, "charger_data")
                      /\ Has(indexes, "idx_charger_name"))
            => /\ pc' = "cycle"
               /\ Count(tables', "charger_data") = 1
               /\ Count(indexes', "idx_charger_name") = 1
               /\ tables' = tables
               /\ indexes' = indexes
               /\ rows' = rows
      ]_vars

\* C10 witness: init_database has run a second time, on a store that holds
\* rows.
C10_Witness ==
    /\ last_call.op = "init_database"
    /\ runs = 2
    /\ last_call.before > 0
    /\ rows # << >>
    /\ tables = << "charger_data" >>
    /\ indexes = << "idx_charger_name" >>

\* C11: store_data returns True exactly when the call appended at least one
\* row, all of them rows of the charger it was called for; was_stored is
\* what main() logs.
C11_ReturnsWhetherStored ==
    last_call.op = "store_data" =>
        /\ last_call.stored <=> NewRows # {}
        /\ \A i \in NewRows : rows[i].charger_name = last_call.charger_name

\* C11 witness: a call for two ports of which one had changed returned True
\* and appended one row.
C11_Witness ==
    /\ Returned
    /\ Len(last_call.port_data) = 2
    /\ last_call.stored
    /\ Cardinality(NewRows) = 1

\* C12: when a step of the extraction raises, extract_port_data returns the
\* single pair ('unknown', 'error'), also when pairs had been extracted
\* before the error.
C12_SentinelOnExtractionError ==
    Returned /\ ExtractLoop(result.data).raised =>
        last_call.port_data = << << Str("unknown"), Str("error") >> >>

\* the rows store_data has inserted, and not yet committed, when it comes to
\* the k-th pair of port_data
PendingBefore(committed, charger_name, port_data, k) ==
    StoreLoop(committed, charger_name, 0, SubSeq(port_data, 1, k - 1), 1, << >>)

\* C13: each time store_data checks a pair, the prior status it compares
\* with is that of the newest row of the charger and port among all rows
\* appended so far, the ones inserted earlier in the same call included.
C13_LookupSeesPendingRows ==
    pc = "record" =>
        LET port_data == extract_port_data(result.data) IN
        \A k \in 1..Len(port_data) :
            LET p == PendingBefore(rows, CHARGERS[idx], port_data, k) IN
            p.error = "" =>
                get_last_port_state(rows, CHARGERS[idx], port_data[k][1])
                    = get_last_port_state(rows \o p.pending, CHARGERS[idx],
                                          port_data[k][1])

\* C14: when store_data returns, the rows it inserted are committed; when
\* the call is cut short by an interrupt or an exception, none of the rows
\* it inserted is in the store; the rows committed before are unchanged.
C14_NoPartialCommit ==
    [][ /\ Len(rows') >= Len(rows)
        /\ SubSeq(rows', 1, Len(rows)) = rows
        /\ (pc = "record" /\ pc' = "stopped") => rows' = rows
        /\ (pc = "record" /\ pc' # "stopped") =>
               Len(rows') - Len(rows)
                   = Len(StoreLoop(rows, CHARGERS[idx], timestamp,
                                   extract_port_data(result.data), 1,
                                   << >>).pending)
      ]_vars

\* C14 witness: a call that had inserted a row for its first pair raised on
\* its second pair, and the store holds what it held before, rows of
\* earlier calls included.
C14_Witness ==
    /\ last_call.op = "store_data"
    /\ last_call.error = "IntegrityError"
    /\ Len(last_call.port_data) = 2
    /\ get_last_port_state(rows, last_call.charger_name,
                           last_call.port_data[1][1]) = None
    /\ last_call.before > 0
    /\ Len(rows) = last_call.before

\* the calls of a whole cycle: query_api then store_data for each charger,
\* in CHARGERS order
CycleCalls ==
    [n \in 1..(2 * Len(CHARGERS)) |->
        << IF n % 2 = 1 THEN "query_api" ELSE "store_data",
           CHARGERS[(n + 1) \div 2] >>]

\* C15: the calls of a cycle are query_api and store_data of each charger in
\* CHARGERS order, each once, the store_data of a charger before the
\* query_api of the next, and the sleep comes after the store_data of the
\* last charger.
C15_CycleOrdering ==
    /\ Len(cycle_log) <= Len(CycleCalls)
    /\ cycle_log = SubSeq(CycleCalls, 1, Len(cycle_log))
    /\ pc = "fetch" => Len(cycle_log) % 2 = 0 /\ Len(cycle_log) < Len(CycleCalls)
    /\ pc = "record" => Len(cycle_log) % 2 = 1
    /\ pc = "sleep" => cycle_log = CycleCalls

\* C15 witness: the loop sleeps in its second cycle, after the calls for
\* both chargers.
C15_Witness ==
    /\ pc = "sleep"
    /\ now > QUERY_INTERVAL
    /\ Len(cycle_log) = 2 * Len(CHARGERS)
    /\ cycle_log[Len(cycle_log)] = << "store_data", CHARGERS[Len(CHARGERS)] >>

\* the store_data call that just returned recorded a poll that fell back to
\* the sentinel pair, and the previous poll of the charger had port data
OutageAfterData ==
    /\ Returned
    /\ ExtractLoop(result.data).port_data = << >>
    /\ last_call.port_data = SENTINEL
    /\ last_call.previous # << >>
    /\ last_call.previous # SENTINEL

\* C16: whenever a poll of charger E falls back to the sentinel pair after a
\* poll of E that returned port data, the store_data call of that poll
\* appends a row (E, 'unknown', 'error'), also when E has such a row from an
\* earlier outage.
C16_EveryOutageRecorded ==
    OutageAfterData =>
        \E i \in NewRows : /\ rows[i].charger_name = last_call.charger_name
                           /\ rows[i].port_id = "unknown"
                           /\ rows[i].port_status = "error"

\* C17: no step modifies or deletes a committed row; the store changes only
\* by the append of rows whose id is greater than every existing id.
C17_AppendOnly ==
    [][ /\ Len(rows') >= Len(rows)
        /\ \A i \in 1..Len(rows) : rows'[i] = rows[i]
        /\ \A j \in (Len(rows) + 1)..Len(rows') :
               \A i \in 1..Len(rows) : rows'[j].id > rows[i].id
      ]_vars

\* C17 witness: in a restarted run a changed status of a port was appended,
\* and the port's row of the first run is still there.
C17_Witness ==
    /\ Returned
    /\ runs = 2
    /\ NewRows # {}
    /\ \E j \in NewRows : \E i \in Predecessors(j) :
           /\ i <= last_call.before
           /\ rows[i].port_status # rows[j].port_status
           /\ rows[i].timestamp < rows[j].timestamp

\* C18: the timestamp is read once when a cycle starts and kept until the
\* cycle ends, every row appended in the cycle carries it, and the
\* timestamps of the rows never decrease along increasing id.
C18_OneTimestampPerCycle ==
    [][ /\ (pc = "cycle" /\ pc' = "fetch") => timestamp' = now
        /\ (pc \in {"fetch", "record"} /\ pc' \in {"fetch", "record", "sleep"})
               => timestamp' = timestamp
        /\ \A j \in (Len(rows) + 1)..Len(rows') : rows'[j].timestamp = timestamp
        /\ \A i, j \in 1..Len(rows') :
               rows'[i].id < rows'[j].id
                   => rows'[i].timestamp <= rows'[j].timestamp
      ]_vars

\* C18 witness: the second cycle has appended rows of two chargers with one
\* timestamp, later than the timestamp of a row of the first cycle, and
\* earlier than the time the second charger was polled.
C18_Witness ==
    /\ Returned
    /\ \E i, j \in 1..Len(rows) : \E k \in NewRows :
           /\ i < j /\ j < k
           /\ rows[i].timestamp < rows[j].timestamp
           /\ rows[j].timestamp = rows[k].timestamp
           /\ rows[j].charger_name # rows[k].charger_name
           /\ rows[k].timestamp < last_call.polled_at

\* the last call of the current cycle is query_api for charger c
Fetched(c) ==
    /\ cycle_log # << >>
    /\ cycle_log[Len(cycle_log)] = << "query_api", CHARGERS[c] >>

\* the step just taken is a store_data for charger c that returned
Recorded(c) == Returned /\ last_call.charger_name = CHARGERS[c]

\* no interrupt arrives and no call of store_data raises
NoInterruptNoStoreFailure ==
    stop_cause \notin {"KeyboardInterrupt", "OperationalError", "IntegrityError"}

\* C19: in a run without interrupt and without a failing store_data, under
\* fairness of the loop's steps, the loop is never stopped, every cycle that
\* has started reaches its sleep, and every charger is fetched and recorded
\* infinitely often.
C19_PollingLiveness ==
    [] NoInterruptNoStoreFailure =>
        /\ [](pc # "stopped")
        /\ (pc = "fetch") ~> (pc = "sleep")
        /\ \A c \in 1..Len(CHARGERS) : []<>Fetched(c) /\ []<>Recorded(c)

\* C19 witness: the loop sleeps after a cycle that is not its first: the
\* first charger has a row of an outage and a row of a port.
C19_Witness ==
    /\ pc = "sleep"
    /\ cycle_log = CycleCalls
    /\ stop_cause = ""
    /\ Cardinality({ i \in 1..Len(rows) :
                       rows[i].charger_name = CHARGERS[1] }) = 2

\* the rows of one charger
RowsOf(committed, charger_name) ==
    SelectSeq(committed, LAMBDA row : row.charger_name = charger_name)

\* what a store_data call decides: the pairs it inserts and how it ends
Decisions(r) ==
    [inserted |-> [k \in 1..Len(r.pending) |->
                      << r.pending[k].port_id, r.pending[k].port_status >>],
     error |-> r.error]

\* C20: what store_data for charger E1 inserts is what it would insert if
\* the store held the rows of E1 only, and the rows it commits leave the
\* last status of every port of every other charger as it was.
C20_NoCrossChargerContamination ==
    [][ (pc = "record" /\ last_call'.op = "store_data") =>
            LET E1 == CHARGERS[idx]
                port_data == extract_port_data(result.data)
            IN  /\ Decisions(StoreLoop(rows, E1, timestamp, port_data, 1, << >>))
                       = Decisions(StoreLoop(RowsOf(rows, E1), E1, timestamp,
                                             port_data, 1, << >>))
                /\ \A c \in 1..Len(CHARGERS) : \A i \in 1..Len(rows') :
                       c # idx =>
                           get_last_port_state(rows', CHARGERS[c],
                                               Str(rows'[i].port_id))
                               = get_last_port_state(rows, CHARGERS[c],
                                                     Str(rows'[i].port_id))
      ]_vars

\* C20 witness: the first sentinel row of the second charger was appended
\* while the first charger had a sentinel row, and the last status of the
\* first charger's port 'unknown' is still its own.
C20_Witness ==
    /\ Returned
    /\ last_call.charger_name = CHARGERS[2]
    /\ last_call.port_data = SENTINEL
    /\ last_call.stored
    /\ \E i \in 1..last_call.before :
           /\ rows[i].charger_name = CHARGERS[1]
           /\ rows[i].port_id = "unknown"
           /\ rows[i].port_status = "error"
    /\ \E j \in NewRows : rows[j].port_id = "unknown" /\ Predecessors(j) = {}

====
